---- MODULE Spec2Model ----
(***************************************************************************)
(* A model of simplot's MCMC proposal functions                            *)
(* (src/simplot/fit/mcmc/old_proposalfunc.py) as driven by a sampler.      *)
(* The on-disk cache (src/simplot/cache.py) and the tree processors        *)
(* (src/simplot/rootplot/ntuple.py) are modelled in sections of their own. *)
(*                                                                         *)
(* Numbers.  Python floats are modelled as exact rationals <<n, d>> in     *)
(* lowest terms with d > 0; d = 0 encodes the non-finite floats            *)
(* (<<0,0>> NaN, <<1,0>> +inf, <<-1,0>> -inf).  Efficiencies are counted in *)
(* twentieths (eff = k/20).  Parameter vectors hold integers.              *)
(* numpy arrays that hold a matrix are records [shape, rows]; a 0-d array  *)
(* has shape <<>>.  Python's None is the record None for optional scalars  *)
(* and NoneArr for optional arrays.                                        *)
(***************************************************************************)
EXTENDS Integers, Sequences, FiniteSets, TLC

VARIABLES kids, fi, num_pars, last, adaptRet, nscale, made, disk, fetched, run

vars == <<kids, fi, num_pars, last, adaptRet, nscale, made, disk, fetched, run>>

----------------------------------------------------------------------------
(* Bounds of the model *)

MaxAdapt == 2

MaxDim == 2

----------------------------------------------------------------------------
(* Rational arithmetic *)

Abs(a) == IF a < 0 THEN -a ELSE a

Sign(a) == IF a < 0 THEN -1 ELSE IF a = 0 THEN 0 ELSE 1

RECURSIVE GCD(_, _)
GCD(a, b) == IF b = 0 THEN a ELSE GCD(b, a % b)

Rat(n, d) ==
    IF d = 0 THEN <<Sign(n), 0>>
    ELSE LET g == GCD(Abs(n), Abs(d))
         IN  <<(Sign(d) * n) \div g, Abs(d) \div g>>

R(i) == <<i, 1>>

NaN == <<0, 0>>

IsFinite(a) == a[2] # 0

RMul(a, b) == Rat(a[1] * b[1], a[2] * b[2])

RAdd(a, b) == Rat(a[1] * b[2] + b[1] * a[2], a[2] * b[2])

RSub(a, b) == Rat(a[1] * b[2] - b[1] * a[2], a[2] * b[2])

RDiv(a, b) == Rat(a[1] * b[2], a[2] * b[1])

----------------------------------------------------------------------------
(* Python values *)

None == [isNone |-> TRUE, v |-> <<0, 1>>]

Some(r) == [isNone |-> FALSE, v |-> r]

NoVec == [isNone |-> TRUE, v |-> <<>>]

SomeVec(s) == [isNone |-> FALSE, v |-> s]

Min(a, b) == IF a < b THEN a ELSE b

(* seq[start:stop] for 0 <= start, stop: Python clamps the slice to the sequence *)
Slice(s, start, stop) == SubSeq(s, Min(start, Len(s)) + 1, Min(stop, Len(s)))

Zeros(n) == [i \in 1..n |-> 0]

----------------------------------------------------------------------------
(* numpy arrays holding matrices *)

NoneArr == [shape |-> <<>>, rows |-> <<>>]

IsNoneArr(a) == a.rows = <<>>

Arr2(rows) == [shape |-> <<Len(rows), Len(rows[1])>>, rows |-> rows]

(* a 0-d array: what numpy.cov returns for samples of a single variable *)
Arr0(r) == [shape |-> <<>>, rows |-> <<<<r>>>>]

(* array * scalar *)
ArrScale(a, r) ==
    [a EXCEPT !.rows = [i \in DOMAIN a.rows |->
                          [j \in DOMAIN a.rows[i] |-> RMul(a.rows[i][j], r)]]]

Drop(s, k) == [i \in 1..(Len(s) - 1) |-> IF i < k THEN s[i] ELSE s[i + 1]]

Minor(m, r, c) == [i \in 1..(Len(m) - 1) |-> Drop(Drop(m, r)[i], c)]

RECURSIVE Det(_)
RECURSIVE DetRow(_, _)
DetRow(m, j) ==
    IF j > Len(m) THEN R(0)
    ELSE RAdd(RMul(RMul(R(IF j % 2 = 1 THEN 1 ELSE -1), m[1][j]), Det(Minor(m, 1, j))),
              DetRow(m, j + 1))

Det(m) == IF Len(m) = 0 THEN R(1) ELSE DetRow(m, 1)

(* TMatrixDSym::Invert of a regular matrix *)
Invert(a) ==
    LET m == a.rows
        n == Len(m)
        d == Det(m)
    IN  Arr2([i \in 1..n |-> [j \in 1..n |->
                RDiv(RMul(R(IF (i + j) % 2 = 0 THEN 1 ELSE -1), Det(Minor(m, j, i))), d)]])

----------------------------------------------------------------------------
(* Proposal objects.  Every object is a record with the same fields; a    *)
(* class that has no such attribute keeps the field at its blank value.   *)

Blank ==
    [kind |-> "", npars |-> 0, parameterRanges |-> <<>>, stepSize |-> None,
     sigma |-> <<>>, mu |-> <<>>, result |-> <<>>,
     func |-> <<>>, invfunc |-> <<>>, indomain |-> <<>>,
     numcov |-> NoneArr, invcov |-> NoneArr, startindex |-> 0, endindex |-> 0,
     converged |-> FALSE, total_scale |-> R(1), updatedcov |-> NoneArr,
     gen |-> [batch |-> NoneArr]]

Ok(self) == [err |-> "", self |-> self]

Raise(err, self) == [err |-> err, self |-> self]

(* the body of the loop of _calcWidthParameters for one parameter *)
WidthParameterAlways(s, range, stepSize) == Some(RMul(stepSize.v, RSub(range[2], range[1])))

WidthParameter(s, range, stepSize) ==
    IF s.isNone THEN Some(RMul(stepSize.v, RSub(range[2], range[1]))) ELSE s

RECURSIVE CalcWidthLoop(_, _, _, _)
CalcWidthLoop(sigma, parameterRanges, stepSize, i) ==
    IF i > Len(parameterRanges) THEN [err |-> "", sigma |-> sigma]
    ELSE IF i > Len(sigma) THEN [err |-> "IndexError", sigma |-> sigma]
    ELSE IF sigma[i].isNone /\ stepSize.isNone THEN [err |-> "TypeError", sigma |-> sigma]
    ELSE CalcWidthLoop([sigma EXCEPT ![i] = WidthParameter(sigma[i], parameterRanges[i], stepSize)],
                       parameterRanges, stepSize, i + 1)

(* numpy.array(sigma, dtype=float): None becomes nan *)
FloatArray(sigma) == [i \in DOMAIN sigma |-> IF sigma[i].isNone THEN NaN ELSE sigma[i].v]

CalcWidthParameters(sigma, parameterRanges, stepSize) ==
    LET r == CalcWidthLoop(sigma, parameterRanges, stepSize, 1)
    IN  [err |-> r.err, sigma |-> FloatArray(r.sigma)]

SanityCheckStateNoLength(self) ==
    IF \E i \in DOMAIN self.sigma : ~IsFinite(self.sigma[i]) THEN Raise("McMcSetupError", self)
    ELSE Ok(self)

SanityCheckState(self) ==
    IF Len(self.sigma) # self.npars THEN Raise("McMcSetupError", self)
    ELSE IF \E i \in DOMAIN self.sigma : ~IsFinite(self.sigma[i]) THEN Raise("McMcSetupError", self)
    ELSE Ok(self)

(* GaussianProposalFunction.__init__; sigma is NoVec or SomeVec(list of None/Some) *)
GaussianInit(parameterRanges, stepSize, sigma) ==
    LET n == Len(parameterRanges)
        sigma0 == IF sigma.isNone THEN [i \in 1..n |-> None] ELSE sigma.v
        self0 == [Blank EXCEPT !.kind = "Gaussian", !.parameterRanges = parameterRanges,
                               !.npars = n, !.stepSize = stepSize, !.result = Zeros(n)]
        cw == CalcWidthParameters(sigma0, parameterRanges, stepSize)
    IN  IF cw.err # "" THEN Raise(cw.err, self0)
        ELSE SanityCheckState([self0 EXCEPT !.sigma = cw.sigma])

(* FixedGaussianProposalFunction.__init__ with parameterRanges=None *)
FixedGaussianInit(mu, sigma) ==
    LET k == Min(Len(mu), Len(sigma))
    IN  IF \E i \in 1..k : sigma[i].isNone THEN Raise("TypeError", Blank)
        ELSE LET parameterRanges ==
                     [i \in 1..k |-> <<RSub(R(mu[i]), RMul(R(5), sigma[i].v)),
                                       RAdd(R(mu[i]), RMul(R(5), sigma[i].v))>>]
                 r == GaussianInit(parameterRanges, None, SomeVec(sigma))
             IN  IF r.err # "" THEN r
                 ELSE Ok([r.self EXCEPT !.kind = "FixedGaussian", !.mu = mu])

(* FixedGaussianProposalFunction.__init__ with parameterRanges given *)
FixedGaussianInitWith(mu, sigma, parameterRanges) ==
    LET Built(r) == IF r.err # "" THEN r
                    ELSE Ok([r.self EXCEPT !.kind = "FixedGaussian", !.mu = mu])
    IN  Built(GaussianInit(parameterRanges, None, SomeVec(sigma)))

(* GaussianTransformProposalFunction.__init__ *)
TransformInit(parameterRanges, stepSize, sigma, func, invfunc, indomain) ==
    LET n == Len(parameterRanges)
        nones == [i \in 1..n |-> ""]
        sigma0 == IF sigma.isNone THEN [i \in 1..n |-> None] ELSE sigma.v
        self == [Blank EXCEPT !.kind = "Transform", !.parameterRanges = parameterRanges,
                              !.npars = n, !.stepSize = stepSize, !.result = Zeros(n),
                              !.sigma = FloatArray(sigma0),
                              !.func = IF func = <<>> THEN nones ELSE func,
                              !.invfunc = IF invfunc = <<>> THEN nones ELSE invfunc,
                              !.indomain = IF indomain = <<>> THEN nones ELSE indomain]
    IN  IF Len(self.sigma) # n THEN Raise("McMcSetupError", self)
        ELSE Ok(self)  \* _autoCalcWidthParameters: a numpy float is never None

MuScalar(v) == [scalar |-> TRUE, v |-> v, s |-> <<>>]

MuSeq(s) == [scalar |-> FALSE, v |-> 0, s |-> s]

(* MultiVariateGaussianProposal.__init__, which the subclasses' __init__ run
   first; mu is a scalar (MuScalar) or an iterable (MuSeq) *)
MultiVariateGaussianInit(kind, cov, mu, startindex) ==
    LET n == Len(cov)
        numcov == Arr2(cov)
    IN  Ok([Blank EXCEPT !.kind = kind, !.npars = n, !.numcov = numcov,
                         !.startindex = startindex, !.endindex = n + startindex,
                         !.gen = [batch |-> NoneArr],
                         !.invcov = Invert(numcov),
                         !.mu = IF mu.scalar THEN [i \in 1..n |-> mu.v] ELSE mu.s,
                         !.converged = FALSE, !.total_scale = R(1), !.updatedcov = NoneArr])

----------------------------------------------------------------------------
(* What a call gives back: a vector, a log density, a boolean or an exception *)

(* a log density: q is the quadratic form, norm lists the sigmas whose
   normalising terms -log(sigma*sqrt(2 pi)) are added to it *)
LD0 == [q |-> R(0), norm |-> <<>>]

LDAdd(a, b) == [q |-> RAdd(a.q, b.q), norm |-> a.norm \o b.norm]

RetNone == [tag |-> "none", vec |-> <<>>, ld |-> LD0, b |-> FALSE, err |-> ""]

RetVec(v) == [RetNone EXCEPT !.tag = "vec", !.vec = v]

RetLD(l) == [RetNone EXCEPT !.tag = "ld", !.ld = l]

RetBool(b) == [RetNone EXCEPT !.tag = "bool", !.b = b]

RetErr(e) == [RetNone EXCEPT !.tag = "err", !.err = e]

Res(self, ret) == [self |-> self, ret |-> ret]

----------------------------------------------------------------------------
(* Random draws: the sampler's pseudo-random source is an input; draw z of *)
(* length n is one of a few fixed patterns of integer deviates            *)

Noise(z, n) == [i \in 1..n |-> IF z = 1 THEN 1 ELSE IF i % 2 = 1 THEN -i ELSE i]

NoiseIds == {1, 2}

(* mcmc::gaus_generate(len(x), x, len(p), p, len(sigma), sigma): fills x with
   independent draws from Normal(p[i], sigma[i]) *)
GausGenerate(x, p, sigma, z) ==
    IF Len(p) # Len(x) \/ Len(sigma) # Len(x) THEN RetErr("LengthError")
    ELSE RetVec([i \in 1..Len(x) |-> p[i] + Noise(z, Len(x))[i]])

RECURSIVE SumTo(_, _)
SumTo(f, n) == IF n = 0 THEN R(0) ELSE RAdd(f[n], SumTo(f, n - 1))

(* mcmc::gaus_log_density *)
GausLogDensity(x, p, sigma) ==
    IF Len(p) # Len(x) \/ Len(sigma) # Len(x) THEN RetErr("LengthError")
    ELSE LET t == [i \in 1..Len(x) |->
                     LET u == RDiv(R(x[i] - p[i]), sigma[i]) IN RMul(u, u)]
         IN  RetLD([q |-> RMul(Rat(-1, 2), SumTo(t, Len(x))), norm |-> sigma])

(* mcmc::multivargaus_log_density(xvec, len(xvec), mu, len(mu), invcov, startindex)
   for startindex = 0: -0.5 (x-mu)^T invcov (x-mu) *)
MultiVarGausLogDensity(xvec, mu, invcov) ==
    LET n == Len(invcov.rows)
    IN  IF Len(xvec) # n \/ Len(mu) # n THEN RetErr("LengthError")
        ELSE LET row(i) == SumTo([j \in 1..n |->
                                RMul(invcov.rows[i][j], R(xvec[j] - mu[j]))], n)
                 t == [i \in 1..n |-> RMul(R(xvec[i] - mu[i]), row(i))]
             IN  RetLD([q |-> RMul(Rat(-1, 2), SumTo(t, n)), norm |-> <<>>])

(* numpy's a + b for one-dimensional arrays *)
BroadcastAdd(a, b) ==
    IF Len(a) = Len(b) THEN RetVec([i \in 1..Len(a) |-> a[i] + b[i]])
    ELSE IF Len(a) = 1 THEN RetVec([i \in 1..Len(b) |-> a[1] + b[i]])
    ELSE IF Len(b) = 1 THEN RetVec([i \in 1..Len(a) |-> a[i] + b[1]])
    ELSE RetErr("ValueError")

----------------------------------------------------------------------------
(* GaussianProposalFunction and FixedGaussianProposalFunction *)

(* x is self._result: the draw is written into the buffer and the buffer returned *)
Drawn(self, r) == IF r.tag = "err" THEN Res(self, r) ELSE Res([self EXCEPT !.result = r.vec], r)

GaussianGenerate(self, parameters, z) ==
    Drawn(self, GausGenerate(self.result, parameters, self.sigma, z))

GaussianLogDensity(self, x, p) == Res(self, GausLogDensity(x, p, self.sigma))

(* a random-walk draw around the current point in place of self.mu *)
FixedGaussianGenerateAtCurrent(self, parameters, z) ==
    Drawn(self, GausGenerate(self.result, parameters, self.sigma, z))

FixedGaussianGenerate(self, parameters, z) ==
    Drawn(self, GausGenerate(self.result, self.mu, self.sigma, z))

FixedGaussianLogDensity(self, x, p) == Res(self, GausLogDensity(x, self.mu, self.sigma))

----------------------------------------------------------------------------
(* GaussianTransformProposalFunction *)

Apply(f, v) ==
    IF f = "shift" THEN v + 1
    ELSE IF f = "unshift" THEN v - 1
    ELSE IF f = "neg" THEN -v
    ELSE v

InDomain(f, v) == IF f = "nonneg" THEN v >= 0 ELSE IF f = "never" THEN FALSE ELSE TRUE

ApplyTransformCopy(self, parameters) ==
    [i \in 1..Len(parameters) |->
        IF self.func[i] # "" THEN Apply(self.func[i], parameters[i]) ELSE parameters[i]]

ApplyInverseTransform(self, parameters) ==
    [i \in 1..Len(parameters) |->
        IF self.invfunc[i] # "" THEN Apply(self.invfunc[i], parameters[i]) ELSE parameters[i]]

CheckDomainLast(self, x) ==
    Len(x) = 0 \/ self.indomain[Len(x)] = "" \/ InDomain(self.indomain[Len(x)], x[Len(x)])

CheckDomain(self, x) ==
    \A i \in 1..Len(x) : self.indomain[i] = "" \/ InDomain(self.indomain[i], x[i])

TransformLogDensity(self, x, p) ==
    IF Len(x) > self.npars \/ Len(p) > self.npars THEN Res(self, RetErr("IndexError"))
    ELSE Res(self, GausLogDensity(ApplyTransformCopy(self, x), ApplyTransformCopy(self, p),
                                  self.sigma))

(* one pass of the loop of generate with draw z: "retry" when _checkdomain
   rejects the draw and the loop goes round again *)
TransformGenerate(self, parameters, z) ==
    LET Checked(r) ==
            IF r.tag = "err" THEN Res(self, r)
            ELSE IF CheckDomain(self, r.vec)
            THEN Res([self EXCEPT !.result = ApplyInverseTransform(self, r.vec)],
                     RetVec(ApplyInverseTransform(self, r.vec)))
            ELSE Res([self EXCEPT !.result = r.vec], [RetNone EXCEPT !.tag = "retry"])
    IN  IF Len(parameters) > self.npars THEN Res(self, RetErr("IndexError"))
        ELSE Checked(GausGenerate(self.result, ApplyTransformCopy(self, parameters),
                                  self.sigma, z))

----------------------------------------------------------------------------
(* MultiVariateGaussianProposal and its subclasses *)

(* self._gen.next(): a generator that has given no draw yet samples its batch
   of `size` = 10000 draws with the covariance the proposal holds then; gen.batch
   is the covariance of the batch in use.  The sampler consumes fewer than
   `size` draws from one generator. *)
GenNext(self) ==
    IF IsNoneArr(self.gen.batch)
    THEN IF self.numcov.shape # <<self.npars, self.npars>>
         THEN Res(self, RetErr("ValueError"))
         ELSE Res([self EXCEPT !.gen = [batch |-> self.numcov]], RetNone)
    ELSE Res(self, RetNone)

(* vec + parameters for the draw vec = self._gen.next() *)
Shifted(g, a, b) == IF g.ret.tag = "err" THEN g ELSE Res(g.self, BroadcastAdd(a, b))

MultiVariateGenerate(self, parameters, z) ==
    Shifted(GenNext(self), Noise(z, self.npars), parameters)

MultiVariateLogDensity(self, xvec, mu) ==
    Res(self, MultiVarGausLogDensity(xvec, mu, self.invcov))

FixedMultiVariateGenerate(self, parameters, z) ==
    Shifted(GenNext(self), self.mu, Noise(z, self.npars))

FixedMultiVariateLogDensity(self, xvec, mu) ==
    Res(self, MultiVarGausLogDensity(xvec, self.mu, self.invcov))

----------------------------------------------------------------------------
(* The adaptive controllers.  eff = k/20 *)

(* abs(eff - 0.4) < 0.1 as IEEE doubles decide it: 0.5 - 0.4 is
   0.09999999999999998 and 0.4 - 0.3 is 0.10000000000000003 *)
InWindow(k) == Abs(k - 8) < 2 \/ k = 10

ScaleUnit(k) == Rat(k + 12, 20)

(* 1.0 + 2.0*(eff - 0.4) *)
Scale(k) == Rat(k + 2, 10)

(* eff > 0.1 *)
AboveTenth(k) == k > 2

NoData == [cols |-> 0]

(* numpy.cov(data.T) for data holding samples of `cols` variables; None has
   no attribute T *)
CalcCov(data) ==
    IF data.cols = 1 THEN Arr0(R(2))
    ELSE Arr2([i \in 1..data.cols |-> [j \in 1..data.cols |-> IF i = j THEN R(2) ELSE R(1)]])

(* return self._converged *)
Returned(self) == Res(self, RetBool(self.converged))

SimpleAdaptUnlatched(self, eff, data) ==
    IF InWindow(eff) THEN Returned([self EXCEPT !.converged = TRUE])
    ELSE Returned([self EXCEPT !.converged = FALSE,
                               !.total_scale = RMul(@, Scale(eff)),
                               !.numcov = ArrScale(@, Scale(eff)),
                               !.gen = [batch |-> NoneArr]])

(* cov *= scale without self._total_scale *= scale *)
SimpleAdaptScaleLost(self, eff, data) ==
    IF ~self.converged
    THEN IF InWindow(eff)
         THEN Returned([self EXCEPT !.converged = TRUE])
         ELSE Returned([self EXCEPT !.numcov = ArrScale(@, Scale(eff)),
                                    !.gen = [batch |-> NoneArr]])
    ELSE Returned(self)

SimpleAdaptKeepsGen(self, eff, data) ==
    IF ~self.converged
    THEN IF InWindow(eff)
         THEN Returned([self EXCEPT !.converged = TRUE])
         ELSE Returned([self EXCEPT !.total_scale = RMul(@, Scale(eff)),
                                    !.numcov = ArrScale(@, Scale(eff))])
    ELSE Returned(self)

(* SimpleAdaptiveMultiVariateGaussianProposal.adapt *)
SimpleAdapt(self, eff, data) ==
    IF ~self.converged
    THEN IF InWindow(eff)
         THEN Returned([self EXCEPT !.converged = TRUE])
         ELSE Returned([self EXCEPT !.total_scale = RMul(@, Scale(eff)),
                                    !.numcov = ArrScale(@, Scale(eff)),  \* cov *= scale, in place
                                    !.gen = [batch |-> NoneArr]])       \* a new generator
    ELSE Returned(self)

ReestimatedUnchecked(s1, newcov) ==
    Returned([s1 EXCEPT !.updatedcov = newcov, !.numcov = newcov, !.gen = [batch |-> NoneArr]])

(* self._updatedcov = newcov; assert newcov.shape == self._numcov.shape;
   self._numcov = newcov; self._gen = self._iterrandom(self._numcov) *)
Reestimated(s1, newcov) ==
    IF newcov.shape # s1.numcov.shape
    THEN Res([s1 EXCEPT !.updatedcov = newcov], RetErr("AssertionError"))
    ELSE Returned([s1 EXCEPT !.updatedcov = newcov, !.numcov = newcov,
                             !.gen = [batch |-> NoneArr]])

AdaptiveAdaptUnlatched(self, eff, data) ==
    IF InWindow(eff) THEN Returned([self EXCEPT !.converged = TRUE])
    ELSE Returned([self EXCEPT !.total_scale = RMul(@, Scale(eff)),
                               !.numcov = ArrScale(@, Scale(eff)),
                               !.gen = [batch |-> NoneArr]])

(* AdaptiveMultiVariateGaussianProposal.adapt; s1 is the object once
   self._total_scale *= scale has run *)
AdaptiveAdapt(self, eff, data) ==
    LET Scaled(s1) ==
            IF AboveTenth(eff) /\ IsNoneArr(self.updatedcov)
            THEN IF data = NoData THEN Res(s1, RetErr("AttributeError"))
                 ELSE Reestimated(s1, ArrScale(CalcCov(data), s1.total_scale))
            ELSE Returned([s1 EXCEPT !.numcov = ArrScale(self.numcov, Scale(eff)),
                                     !.gen = [batch |-> NoneArr]])
    IN  IF ~self.converged
        THEN IF InWindow(eff)
             THEN Returned([self EXCEPT !.converged = TRUE])
             ELSE Scaled([self EXCEPT !.total_scale = RMul(@, Scale(eff))])
        ELSE Returned(self)

----------------------------------------------------------------------------
(* Method lookup on a child object *)

HasAdapt(self) == self.kind \in {"Simple", "Adaptive"}

KidAdapt(self, eff, data) ==
    IF self.kind = "Simple" THEN SimpleAdapt(self, eff, data)
    ELSE IF self.kind = "Adaptive" THEN AdaptiveAdapt(self, eff, data)
    ELSE Res(self, RetErr("AttributeError"))

KidGenerate(self, parameters, z) ==
    IF self.kind = "Gaussian" THEN GaussianGenerate(self, parameters, z)
    ELSE IF self.kind = "FixedGaussian" THEN FixedGaussianGenerate(self, parameters, z)
    ELSE IF self.kind = "Transform" THEN TransformGenerate(self, parameters, z)
    ELSE IF self.kind = "FixedMVG" THEN FixedMultiVariateGenerate(self, parameters, z)
    ELSE MultiVariateGenerate(self, parameters, z)

KidLogDensity(self, x, p) ==
    IF self.kind = "Gaussian" THEN GaussianLogDensity(self, x, p)
    ELSE IF self.kind = "FixedGaussian" THEN FixedGaussianLogDensity(self, x, p)
    ELSE IF self.kind = "Transform" THEN TransformLogDensity(self, x, p)
    ELSE IF self.kind = "FixedMVG" THEN FixedMultiVariateLogDensity(self, x, p)
    ELSE MultiVariateLogDensity(self, x, p)

----------------------------------------------------------------------------
(* CombinedProposalFunction.  The children are objects on the heap, `kids`; *)
(* a reference to a child is its index.  _fi is a list of (f, start, stop). *)
(* Each operation gives [kids, ret, kcalls]: the heap after it, what it     *)
(* returns or raises, and the calls it made on its children.                *)

NoCall == [f |-> 0, op |-> "", x |-> <<>>, p |-> <<>>, eff |-> 0, data |-> NoData,
           ret |-> RetNone]

Call(f, op, x, p, ret) == [NoCall EXCEPT !.f = f, !.op = op, !.x = x, !.p = p, !.ret = ret]

AdaptCall(f, eff, data, ret) ==
    [NoCall EXCEPT !.f = f, !.op = "adapt", !.eff = eff, !.data = data, !.ret = ret]

Out(kids_, ret, kcalls) == [kids |-> kids_, ret |-> ret, kcalls |-> kcalls]

RECURSIVE CombinedInitLoop(_, _, _, _, _)
CombinedInitLoop(funcs, numpars, i, start, acc) ==
    IF i > Len(funcs) THEN [err |-> "", fi |-> acc]
    ELSE IF i > Len(numpars) THEN [err |-> "IndexError", fi |-> acc]
    ELSE LET stop == start + numpars[i]
         IN  CombinedInitLoop(funcs, numpars, i + 1, stop,
                              Append(acc, [f |-> funcs[i], start |-> start, stop |-> stop]))

CombinedInitOverlap(funcs, numpars) ==
    [err |-> "",
     fi |-> [i \in 1..Len(funcs) |-> [f |-> funcs[i], start |-> 0, stop |-> numpars[i]]]]

CombinedInit(funcs, numpars) == CombinedInitLoop(funcs, numpars, 1, 0, <<>>)

CombinedLogDensityTermWhole(kids_, e, xvec, mu) ==
    Call(e.f, "logDensity", Slice(xvec, e.start, e.stop), mu,
         KidLogDensity(kids_[e.f], Slice(xvec, e.start, e.stop), mu).ret)

(* p.logDensity(xvec[start:stop], mu[start:stop]) for one entry of _fi *)
CombinedLogDensityTerm(kids_, e, xvec, mu) ==
    Call(e.f, "logDensity", Slice(xvec, e.start, e.stop), Slice(mu, e.start, e.stop),
         KidLogDensity(kids_[e.f], Slice(xvec, e.start, e.stop), Slice(mu, e.start, e.stop)).ret)

RECURSIVE CombinedLogDensityLoop(_, _, _, _, _, _)
CombinedLogDensityLoop(kids_, fi_, xvec, mu, j, acc) ==
    LET Add(c) ==
            IF c.ret.tag = "err"
            THEN Out(kids_, c.ret, Append(acc.kcalls, c))
            ELSE CombinedLogDensityLoop(kids_, fi_, xvec, mu, j + 1,
                     Out(kids_, RetLD(LDAdd(acc.ret.ld, c.ret.ld)), Append(acc.kcalls, c)))
    IN  IF j > Len(fi_) THEN acc
        ELSE Add(CombinedLogDensityTerm(kids_, fi_[j], xvec, mu))

CombinedLogDensity(kids_, fi_, xvec, mu) ==
    CombinedLogDensityLoop(kids_, fi_, xvec, mu, 1, Out(kids_, RetLD(LD0), <<>>))

(* p.generate(parameters[start:stop]) for one entry of _fi *)
CombinedGenerateTerm(kids_, e, parameters, z) ==
    LET Made(r) == [call |-> Call(e.f, "generate", <<>>, Slice(parameters, e.start, e.stop),
                                  r.ret),
                    self |-> r.self]
    IN  Made(KidGenerate(kids_[e.f], Slice(parameters, e.start, e.stop), z))

RECURSIVE CombinedGenerateLoop(_, _, _, _, _)
CombinedGenerateLoop(fi_, parameters, z, j, acc) ==
    LET Add(t, heap) ==
            IF t.call.ret.tag # "vec"
            THEN Out(heap, t.call.ret, Append(acc.kcalls, t.call))
            ELSE CombinedGenerateLoop(fi_, parameters, z, j + 1,
                     Out(heap, RetVec(acc.ret.vec \o t.call.ret.vec),
                         Append(acc.kcalls, t.call)))
        Step(t) == Add(t, [acc.kids EXCEPT ![fi_[j].f] = t.self])
    IN  IF j > Len(fi_) THEN acc
        ELSE Step(CombinedGenerateTerm(acc.kids, fi_[j], parameters, z))

(* numpy.concatenate of the children's vectors; it refuses an empty list *)
CombinedGenerate(kids_, fi_, parameters, z) ==
    IF Len(fi_) = 0 THEN Out(kids_, RetErr("ValueError"), <<>>)
    ELSE CombinedGenerateLoop(fi_, parameters, z, 1, Out(kids_, RetVec(<<>>), <<>>))

(* the loop of adapt: `ret and f.adapt(eff, data)` evaluates f.adapt only
   when ret is true; an AttributeError is passed over *)
RECURSIVE CombinedAdaptLoop(_, _, _, _, _, _)
CombinedAdaptLoop(fi_, eff, data, j, ret, acc) ==
    LET Anded(f, r, after) ==
            IF r.ret.tag = "err"
            THEN IF r.ret.err = "AttributeError"
                 THEN CombinedAdaptLoop(fi_, eff, data, j + 1, ret, after)
                 ELSE Out(after.kids, r.ret, after.kcalls)
            ELSE CombinedAdaptLoop(fi_, eff, data, j + 1, r.ret.b, after)
        Called(f, r) ==
            Anded(f, r, Out([acc.kids EXCEPT ![f] = r.self], acc.ret,
                            IF HasAdapt(acc.kids[f])
                            THEN Append(acc.kcalls, AdaptCall(f, eff, data, r.ret))
                            ELSE acc.kcalls))
    IN  IF j > Len(fi_) THEN Out(acc.kids, RetBool(ret), acc.kcalls)
        ELSE IF ~ret THEN CombinedAdaptLoop(fi_, eff, data, j + 1, ret, acc)
        ELSE Called(fi_[j].f, KidAdapt(acc.kids[fi_[j].f], eff, data))

CombinedAdapt(kids_, fi_, eff, data) ==
    CombinedAdaptLoop(fi_, eff, data, 1, FALSE, Out(kids_, RetNone, <<>>))

----------------------------------------------------------------------------
(* ProposalWithSomeParametersFixed.  The wrapped proposal w is the         *)
(* composite (w = 0) or child w of the heap.  An entry of fixedvalues is    *)
(* Free (None) or Lit(v).  Each operation gives [kids, ret, kcalls, wcall]: *)
(* wcall is the call made on the wrapped proposal.                          *)

Free == [isNone |-> TRUE, v |-> 0]

Lit(v) == [isNone |-> FALSE, v |-> v]

(* what a call on child w leaves: the heap with the child's new state *)
OfKid(kids_, w, r, kcalls) == Out([kids_ EXCEPT ![w] = r.self], r.ret, kcalls)

WrappedGenerate(kids_, fi_, w, parameters, z) ==
    IF w = 0 THEN CombinedGenerate(kids_, fi_, parameters, z)
    ELSE OfKid(kids_, w, KidGenerate(kids_[w], parameters, z), <<>>)

WrappedLogDensity(kids_, fi_, w, x, p) ==
    IF w = 0 THEN CombinedLogDensity(kids_, fi_, x, p)
    ELSE Out(kids_, KidLogDensity(kids_[w], x, p).ret, <<>>)

WrappedAdapt(kids_, fi_, w, eff, data) ==
    LET Noted(r) == OfKid(kids_, w, r, IF HasAdapt(kids_[w])
                                       THEN <<AdaptCall(w, eff, data, r.ret)>> ELSE <<>>)
    IN  IF w = 0 THEN CombinedAdapt(kids_, fi_, eff, data)
        ELSE Noted(KidAdapt(kids_[w], eff, data))

(* for index, val in enumerate(fixedvalues): if val is not None: vec[index] = val *)
OverrideTruthy(vec, fixedvalues) ==
    [i \in 1..Len(vec) |->
        IF i <= Len(fixedvalues) /\ ~fixedvalues[i].isNone /\ fixedvalues[i].v # 0
        THEN fixedvalues[i].v ELSE vec[i]]

Override(vec, fixedvalues) ==
    [i \in 1..Len(vec) |->
        IF i <= Len(fixedvalues) /\ ~fixedvalues[i].isNone THEN fixedvalues[i].v ELSE vec[i]]

OverrideFails(vec, fixedvalues) ==
    \E i \in 1..Len(fixedvalues) : ~fixedvalues[i].isNone /\ i > Len(vec)

FOut(o, ret, wcall) == [kids |-> o.kids, ret |-> ret, kcalls |-> o.kcalls, wcall |-> wcall]

(* a Gaussian-family proposal returns its own buffer self._result *)
ReturnsBuffer(self) == self.kind \in {"Gaussian", "FixedGaussian", "Transform"}

FixedLogDensity(kids_, fi_, w, fixedvalues, x, p) ==
    LET Given(x1, p1, o) == FOut(o, o.ret, Call(w, "logDensity", x1, p1, o.ret))
        Pass(x1, p1) == Given(x1, p1, WrappedLogDensity(kids_, fi_, w, x1, p1))
    IN  IF Len(x) # Len(fixedvalues)
        THEN FOut(Out(kids_, RetNone, <<>>), RetErr("NameError"), NoCall)  \* len(mu): mu is no name
        ELSE IF OverrideFails(p, fixedvalues)
        THEN FOut(Out(kids_, RetNone, <<>>), RetErr("IndexError"), NoCall)
        ELSE Pass(Override(x, fixedvalues), Override(p, fixedvalues))

FixedGenerate(kids_, fi_, w, fixedvalues, parameters, z) ==
    LET Fixed(o, wcall, result) ==
            FOut(Out(IF w # 0 /\ ReturnsBuffer(kids_[w])
                     THEN [o.kids EXCEPT ![w].result = result]   \* written in place
                     ELSE o.kids,
                     o.ret, o.kcalls),
                 RetVec(result), wcall)
        Got(o, wcall) ==
            IF o.ret.tag # "vec" THEN FOut(o, o.ret, wcall)
            ELSE IF Len(o.ret.vec) # Len(fixedvalues) THEN FOut(o, RetErr("Exception"), wcall)
            ELSE Fixed(o, wcall, Override(o.ret.vec, fixedvalues))
        Result(o) == Got(o, Call(w, "generate", <<>>, parameters, o.ret))
    IN  Result(WrappedGenerate(kids_, fi_, w, parameters, z))

FixedAdapt(kids_, fi_, w, eff, data) ==
    LET Result(o) == FOut(o, o.ret, AdaptCall(w, eff, data, o.ret))
    IN  Result(WrappedAdapt(kids_, fi_, w, eff, data))

----------------------------------------------------------------------------
(* The on-disk cache (src/simplot/cache.py).  A Python object is a record   *)
(* [type, v]; a file holds the format it was written in and the object.     *)
(* `disk` maps each file name of the cache directory to its file, `fetched` *)
(* records the latest call of cache or cache_numpy and, per function and    *)
(* unique string, what the first call returned.                             *)

NoValue == [type |-> "", v |-> 0]

NoFile == [fmt |-> "", data |-> NoValue]

UniqueStrs == {"a", "b"}

(* Cache.tmpfilename with the default prefix and tmpdir, which neither cache
   nor cache_numpy overrides; md5 is hashlib.md5(uniquestr).hexdigest() *)
TmpFileName(uniquestr) ==
    LET md5 == IF uniquestr = "a" THEN "0cc175b9c0f1b6a831c399e269772661"
               ELSE "92eb5ffee6ae2fec3ad71c777531578f"
    IN  "/tmp/simplot_cache" \o "/" \o "tmp" \o "_" \o md5 \o ".bin"

EmptyDir == [name \in {TmpFileName(k) : k \in UniqueStrs} |-> NoFile]

(* CachePickle.write: pickle.dump; CacheNumpy.write: numpy.save, which stores
   the data as an array *)
CacheWrite(fn, data) ==
    IF fn = "cache_numpy" THEN [fmt |-> "npy", data |-> [data EXCEPT !.type = "ndarray"]]
    ELSE [fmt |-> "pickle", data |-> data]

(* CachePickle.read: pickle.load, which fails on a file that is no pickle;
   CacheNumpy.read: numpy.load, which loads .npy files and pickled files *)
CacheRead(fn, file) ==
    IF fn = "cache" /\ file.fmt # "pickle" THEN [err |-> "UnpicklingError", data |-> NoValue]
    ELSE [err |-> "", data |-> file.data]

(* no cn.exists() test: the callable is evaluated and its result written on
   every call *)
CachedAlways(fn, dir, uniquestr, data) ==
    [disk |-> [dir EXCEPT ![TmpFileName(uniquestr)] = CacheWrite(fn, data)],
     evaluated |-> TRUE, hit |-> "", err |-> "", data |-> data]

(* cache(uniquestr, callable_) and cache_numpy(uniquestr, callable_) for a
   callable that returns data; hit is the format of the file read *)
Cached(fn, dir, uniquestr, data) ==
    LET name == TmpFileName(uniquestr)
        Read(r) == [disk |-> dir, evaluated |-> FALSE, hit |-> dir[name].fmt,
                    err |-> r.err, data |-> r.data]
    IN  IF dir[name] # NoFile
        THEN Read(CacheRead(fn, dir[name]))
        ELSE [disk |-> [dir EXCEPT ![name] = CacheWrite(fn, data)],
              evaluated |-> TRUE, hit |-> "", err |-> "", data |-> data]

NoFetch ==
    [fn |-> "", uniquestr |-> "", given |-> NoValue, evaluated |-> FALSE, hit |-> "",
     err |-> "", data |-> NoValue,
     first |-> [fn \in {"cache", "cache_numpy"} |-> [k \in UniqueStrs |-> NoValue]]]

----------------------------------------------------------------------------
(* The tree processors (src/simplot/rootplot/ntuple.py).  An input file is  *)
(* a record: n entries in the tree, `friend` entries in the second tree of  *)
(* ProcessParallelTrees, and the entries `sel` that pass the cut of         *)
(* ProcessTreeSubset.  `run` records one run: its arguments and the calls   *)
(* it made on the algorithm, in order.                                      *)

AlgCall(op, f, e) == [op |-> op, file |-> f, event |-> e]

(* ProcessTree._total_num_events *)
RECURSIVE TotalNumEvents(_, _)
TotalNumEvents(files, f) ==
    IF f > Len(files) THEN 0 ELSE files[f].n + TotalNumEvents(files, f + 1)

(* progress.printprogress(name, total, iterable, update=True): a generator
   that yields the items of iterable one by one as they are asked for; asked
   for k items it asks iterable for k *)
PrintProgress(k) == k

(* The generator ProcessTree._iterable / ProcessParallelTrees._iterable, run
   for k calls of next(): the calls it makes on the algorithm.  It stands at
   entry e of file f (e = 0: the file is not opened yet); a next() runs to
   the yield of the next event, or to the end of the generator.  izip stops
   at the shorter tree *)
RECURSIVE Iterable(_, _, _, _, _, _)
Iterable(class, files, f, e, k, acc) ==
    IF k = 0 THEN acc
    ELSE IF f > Len(files) THEN Append(acc, AlgCall("end", 0, 0))
    ELSE IF e = 0 THEN Iterable(class, files, f, 1, k, Append(acc, AlgCall("file", f, 0)))
    ELSE IF e > (IF class = "ProcessParallelTrees" THEN Min(files[f].n, files[f].friend)
                 ELSE files[f].n)
    THEN Iterable(class, files, f + 1, 0, k, acc)
    ELSE Iterable(class, files, f, e + 1, k - 1, Append(acc, AlgCall("event", f, e)))

(* the loops of ProcessTree.run: how many items they ask the iterable for.
   `for i, val in enumerate(iterable): if i >= n_max: break` has taken
   item number n_max when it breaks *)
Asked(n_max, total) ==
    IF n_max.isNone THEN total + 1
    ELSE IF n_max.v > 0 THEN n_max.v + 1
    ELSE 0

(* ProcessTree.run, which ProcessParallelTrees inherits *)
ProcessTreeRun(class, files, n_max) ==
    [err |-> "",
     trace |-> Iterable(class, files, 1, 0,
                        PrintProgress(Asked(n_max, TotalNumEvents(files, 1))),
                        <<AlgCall("begin", 0, 0)>>)]

(* the loop over the files of ProcessTreeSubset.run *)
RECURSIVE SubsetLoop(_, _, _, _, _, _)
SubsetLoop(files, f, count, n_max, cutok, acc) ==
    IF f > Len(files) THEN [err |-> "", trace |-> Append(acc, AlgCall("end", 0, 0))]
    ELSE IF ~cutok THEN [err |-> "Exception", trace |-> Append(acc, AlgCall("file", f, 0))]
    ELSE LET sel == files[f].sel
             take == IF n_max.isNone \/ n_max.v - count > Len(sel) THEN Len(sel)
                     ELSE IF n_max.v > count THEN n_max.v - count
                     ELSE 0
             done == Append(acc, AlgCall("file", f, 0))
                       \o [j \in 1..take |-> AlgCall("event", f, sel[j])]
         IN  IF ~n_max.isNone /\ count + take >= n_max.v
             THEN [err |-> "", trace |-> Append(done, AlgCall("end", 0, 0))]
             ELSE SubsetLoop(files, f + 1, count + take, n_max, cutok, done)

(* ProcessTreeSubset.run: self._alg.begin() on its first line and again
   before the loop *)
ProcessTreeSubsetRun(files, n_max, cutok) ==
    SubsetLoop(files, 1, 0, n_max, cutok, <<AlgCall("begin", 0, 0), AlgCall("begin", 0, 0)>>)

NoRun == [class |-> "", files |-> <<>>, n_max |-> [isNone |-> TRUE, v |-> 0], cutok |-> TRUE,
          err |-> "", trace |-> <<>>]

----------------------------------------------------------------------------
(* The sampler: it holds a composite over the children `kids`, may wrap it  *)
(* or a child in a fixed-subset decorator, and calls generate, logDensity   *)
(* and adapt one after the other.  `last` records the latest call.          *)

KindMenu ==
    {<<"Simple">>, <<"Adaptive">>, <<"Transform">>, <<"Gaussian", "FixedGaussian">>,
     <<"MVG", "Simple">>, <<"FixedMVG", "MVG">>}

Effs == {2, 8, 12}

DataMenu == {[cols |-> c] : c \in 0..MaxDim}

TestVecs(n) == {Zeros(n), [i \in 1..n |-> i]}

FixedMenu(n) ==
    {[i \in 1..n |-> Free],
     [i \in 1..n |-> IF i = 1 THEN Lit(7) ELSE Free],
     [i \in 1..n |-> IF i = n THEN Lit(0) ELSE Free],
     [i \in 1..n |-> Lit(7)]}

CovRows(n) == [i \in 1..n |-> [j \in 1..n |-> IF i = j THEN R(2) ELSE R(1)]]

NewKid(kind, n) ==
    IF kind = "Gaussian"
    THEN GaussianInit([i \in 1..n |-> <<R(-5), R(5)>>], Some(Rat(4, 10)), NoVec).self
    ELSE IF kind = "FixedGaussian"
    THEN FixedGaussianInit([i \in 1..n |-> 3], [i \in 1..n |-> Some(R(2))]).self
    ELSE IF kind = "Transform"
    THEN TransformInit([i \in 1..n |-> <<R(0), R(4)>>], Some(Rat(1, 10)),
                       SomeVec([i \in 1..n |-> Some(R(1))]),
                       [i \in 1..n |-> "shift"], [i \in 1..n |-> "unshift"],
                       [i \in 1..n |-> IF i = 1 THEN "nonneg" ELSE ""]).self
    ELSE IF kind = "FixedMVG"
    THEN MultiVariateGaussianInit(kind, CovRows(n), MuSeq([i \in 1..n |-> 3]), 0).self
    ELSE MultiVariateGaussianInit(kind, CovRows(n), MuScalar(0), 0).self

NoLast ==
    [op |-> "", obj |-> "", f |-> 0, x |-> <<>>, p |-> <<>>, eff |-> 0, data |-> NoData,
     fixedvalues |-> <<>>, z |-> 0, ret |-> RetNone, wcall |-> NoCall, kcalls |-> <<>>]

NotMade == [class |-> "", parameterRanges |-> <<>>, stepSize |-> None, sigma |-> NoVec,
            mu |-> <<>>, err |-> "", self |-> Blank]

Start(ks, ds) ==
    /\ kids = [i \in 1..Len(ks) |-> NewKid(ks[i], ds[i])]
    /\ num_pars = ds
    /\ fi = CombinedInit([i \in 1..Len(ks) |-> i], ds).fi
    /\ last = NoLast
    /\ adaptRet = [i \in 1..Len(ks) |-> "none"]
    /\ nscale = [i \in 1..Len(ks) |-> 0]
    /\ made = NotMade
    /\ disk = EmptyDir /\ fetched = NoFetch /\ run = NoRun

Init == \E ks \in KindMenu, d \in 1..MaxDim : Start(ks, [i \in 1..Len(ks) |-> d])

InitCalls == \E ks \in KindMenu : \E ds \in [1..Len(ks) -> 1..MaxDim] : Start(ks, ds)

(* the dimension of the wrapped proposal w *)
NPars(w) == IF w = 0 THEN fi[Len(fi)].stop ELSE kids[w].npars

RetStr(ret) == IF ret.tag = "err" THEN "error" ELSE IF ret.b THEN "true" ELSE "false"

RECURSIVE NoteAdapt(_, _, _)
NoteAdapt(ar, calls, j) ==
    IF j > Len(calls) THEN ar
    ELSE NoteAdapt([ar EXCEPT ![calls[j].f] = RetStr(calls[j].ret)], calls, j + 1)

(* how often each child's cumulative scale has been multiplied; an adapt call
   is within the model's bounds when no child is rescaled more than MaxAdapt
   times *)
Rescaled(heap) ==
    [i \in DOMAIN kids |->
        nscale[i] + IF heap[i].total_scale # kids[i].total_scale THEN 1 ELSE 0]

Adapted(heap, calls) ==
    /\ nscale' = Rescaled(heap)
    /\ \A i \in DOMAIN kids : nscale'[i] <= MaxAdapt
    /\ kids' = heap
    /\ adaptRet' = NoteAdapt(adaptRet, calls, 1)

KidGenerateCall(i, p, z) ==
    \E r \in {KidGenerate(kids[i], p, z)} :
        /\ r.ret.tag # "retry"
        /\ kids' = [kids EXCEPT ![i] = r.self]
        /\ last' = [NoLast EXCEPT !.op = "generate", !.obj = "kid", !.f = i, !.p = p, !.z = z,
                                  !.ret = r.ret]
        /\ UNCHANGED <<fi, num_pars, adaptRet, nscale, made, disk, fetched, run>>

KidLogDensityCall(i, x, p) ==
    /\ last' = [NoLast EXCEPT !.op = "logDensity", !.obj = "kid", !.f = i, !.x = x, !.p = p,
                              !.ret = KidLogDensity(kids[i], x, p).ret]
    /\ UNCHANGED <<kids, fi, num_pars, adaptRet, nscale, made, disk, fetched, run>>

KidAdaptCall(i, eff, data) ==
    \E r \in {KidAdapt(kids[i], eff, data)} :
        /\ HasAdapt(kids[i])
        /\ Adapted([kids EXCEPT ![i] = r.self], <<AdaptCall(i, eff, data, r.ret)>>)
        /\ last' = [NoLast EXCEPT !.op = "adapt", !.obj = "kid", !.f = i, !.eff = eff,
                                  !.data = data, !.ret = r.ret]
        /\ UNCHANGED <<fi, num_pars, made, disk, fetched, run>>

CombinedGenerateCall(p, z) ==
    \E o \in {CombinedGenerate(kids, fi, p, z)} :
        /\ o.ret.tag # "retry"
        /\ kids' = o.kids
        /\ last' = [NoLast EXCEPT !.op = "generate", !.obj = "combined", !.p = p, !.z = z,
                                  !.ret = o.ret, !.kcalls = o.kcalls]
        /\ UNCHANGED <<fi, num_pars, adaptRet, nscale, made, disk, fetched, run>>

CombinedLogDensityCall(x, p) ==
    \E o \in {CombinedLogDensity(kids, fi, x, p)} :
        /\ last' = [NoLast EXCEPT !.op = "logDensity", !.obj = "combined", !.x = x, !.p = p,
                                  !.ret = o.ret, !.kcalls = o.kcalls]
        /\ UNCHANGED <<kids, fi, num_pars, adaptRet, nscale, made, disk, fetched, run>>

CombinedAdaptCall(eff, data) ==
    \E o \in {CombinedAdapt(kids, fi, eff, data)} :
        /\ Adapted(o.kids, o.kcalls)
        /\ last' = [NoLast EXCEPT !.op = "adapt", !.obj = "combined", !.eff = eff,
                                  !.data = data, !.ret = o.ret, !.kcalls = o.kcalls]
        /\ UNCHANGED <<fi, num_pars, made, disk, fetched, run>>

FixedGenerateCall(w, fixedvalues, p, z) ==
    \E o \in {FixedGenerate(kids, fi, w, fixedvalues, p, z)} :
        /\ o.ret.tag # "retry"
        /\ kids' = o.kids
        /\ last' = [NoLast EXCEPT !.op = "generate", !.obj = "fixed", !.f = w, !.p = p, !.z = z,
                                  !.fixedvalues = fixedvalues, !.ret = o.ret,
                                  !.wcall = o.wcall, !.kcalls = o.kcalls]
        /\ UNCHANGED <<fi, num_pars, adaptRet, nscale, made, disk, fetched, run>>

FixedLogDensityCall(w, fixedvalues, x, p) ==
    \E o \in {FixedLogDensity(kids, fi, w, fixedvalues, x, p)} :
        /\ last' = [NoLast EXCEPT !.op = "logDensity", !.obj = "fixed", !.f = w, !.x = x,
                                  !.p = p, !.fixedvalues = fixedvalues, !.ret = o.ret,
                                  !.wcall = o.wcall, !.kcalls = o.kcalls]
        /\ UNCHANGED <<kids, fi, num_pars, adaptRet, nscale, made, disk, fetched, run>>

FixedAdaptCall(w, eff, data) ==
    \E o \in {FixedAdapt(kids, fi, w, eff, data)} :
        /\ Adapted(o.kids, o.kcalls)
        /\ last' = [NoLast EXCEPT !.op = "adapt", !.obj = "fixed", !.f = w, !.eff = eff,
                                  !.data = data, !.ret = o.ret,
                                  !.wcall = o.wcall, !.kcalls = o.kcalls]
        /\ UNCHANGED <<fi, num_pars, made, disk, fetched, run>>

Lens(n) == {m \in {n - 1, n, n + 1} : m >= 0}

Ramp(n) == [i \in 1..n |-> i]

Wrappable == {0} \cup DOMAIN kids

FixedMenuRun(n) ==
    {[i \in 1..n |-> IF i = 1 THEN Lit(7) ELSE Free],
     [i \in 1..n |-> IF i = n THEN Lit(0) ELSE Free]}

(* The sampler's run: any sequence of calls, each with vectors of the
   proposal's dimension *)
Next ==
    \/ \E i \in DOMAIN kids : KidGenerateCall(i, Ramp(kids[i].npars), 1)
    \/ \E i \in DOMAIN kids : KidLogDensityCall(i, Zeros(kids[i].npars), Ramp(kids[i].npars))
    \/ \E i \in DOMAIN kids, eff \in Effs, data \in DataMenu : KidAdaptCall(i, eff, data)
    \/ CombinedGenerateCall(Ramp(NPars(0)), 1)
    \/ CombinedLogDensityCall(Zeros(NPars(0)), Ramp(NPars(0)))
    \/ \E eff \in Effs, data \in DataMenu : CombinedAdaptCall(eff, data)
    \/ \E w \in Wrappable :
         \E fixedvalues \in FixedMenuRun(NPars(w)) :
           FixedGenerateCall(w, fixedvalues, Ramp(NPars(w)), 1)
    \/ \E w \in Wrappable :
         \E fixedvalues \in FixedMenuRun(NPars(w)) :
           FixedLogDensityCall(w, fixedvalues, Zeros(NPars(w)), Ramp(NPars(w)))
    \/ \E w \in Wrappable, eff \in Effs, data \in DataMenu : FixedAdaptCall(w, eff, data)

Spec == Init /\ [][Next]_vars

(* One call on freshly constructed proposals, with vectors of any length
   around the proposal's dimension *)
NextCalls ==
    /\ last.op = ""
    /\ \/ \E i \in DOMAIN kids, z \in NoiseIds :
            \E p \in TestVecs(kids[i].npars) : KidGenerateCall(i, p, z)
       \/ \E i \in DOMAIN kids :
            \E x \in TestVecs(kids[i].npars), p \in TestVecs(kids[i].npars) :
              KidLogDensityCall(i, x, p)
       \/ \E z \in NoiseIds, n \in Lens(NPars(0)) :
            \E p \in TestVecs(n) : CombinedGenerateCall(p, z)
       \/ \E n \in Lens(NPars(0)), m \in Lens(NPars(0)) :
            \E x \in TestVecs(n), p \in TestVecs(m) : CombinedLogDensityCall(x, p)
       \/ \E w \in Wrappable, z \in NoiseIds :
            \E fixedvalues \in FixedMenu(NPars(w)), n \in Lens(NPars(w)) :
              \E p \in TestVecs(n) : FixedGenerateCall(w, fixedvalues, p, z)
       \/ \E w \in Wrappable :
            \E fixedvalues \in FixedMenu(NPars(w)), n \in Lens(NPars(w)), m \in Lens(NPars(w)) :
              \E x \in TestVecs(n), p \in TestVecs(m) : FixedLogDensityCall(w, fixedvalues, x, p)

SpecCalls == InitCalls /\ [][NextCalls]_vars

----------------------------------------------------------------------------
(* Construction of the univariate proposals from the caller's arguments    *)

RangeMenu == {<<R(-5), R(5)>>, <<R(0), R(4)>>}

StepMenu == {None, Some(Rat(4, 10)), Some(Rat(1, 10))}

SigmaVals == {None, Some(R(3)), Some(R(0)), Some(R(-1)), Some(NaN)}

(* lists of n entries, and one too short and one too long *)
SigmaLists(n) ==
    [1..n -> SigmaVals] \cup {[i \in 1..m |-> Some(R(3))] : m \in {n - 1, n + 1}}

SigmaMenu(n) == {NoVec} \cup {SomeVec(sg) : sg \in SigmaLists(n)}

InitNew ==
    /\ kids = <<>>
    /\ num_pars = <<>>
    /\ fi = <<>>
    /\ last = NoLast
    /\ adaptRet = <<>>
    /\ nscale = <<>>
    /\ made = NotMade
    /\ disk = EmptyDir /\ fetched = NoFetch /\ run = NoRun

Constructed(class, parameterRanges, stepSize, sigma, mu, r) ==
    /\ made = NotMade
    /\ made' = [class |-> class, parameterRanges |-> parameterRanges, stepSize |-> stepSize,
                sigma |-> sigma, mu |-> mu, err |-> r.err, self |-> r.self]
    /\ UNCHANGED <<kids, fi, num_pars, last, adaptRet, nscale, disk, fetched, run>>

GaussianNew(parameterRanges, stepSize, sigma) ==
    Constructed("Gaussian", parameterRanges, stepSize, sigma, <<>>,
                GaussianInit(parameterRanges, stepSize, sigma))

FixedGaussianNew(mu, sigma) ==
    Constructed("FixedGaussian", <<>>, None, SomeVec(sigma), mu, FixedGaussianInit(mu, sigma))

FixedGaussianRangesNew(mu, sigma, parameterRanges) ==
    Constructed("FixedGaussian", parameterRanges, None, SomeVec(sigma), mu,
                FixedGaussianInitWith(mu, sigma, parameterRanges))

TransformNew(parameterRanges, stepSize, sigma) ==
    Constructed("Transform", parameterRanges, stepSize, sigma, <<>>,
                TransformInit(parameterRanges, stepSize, sigma, <<>>, <<>>, <<>>))

(* covariance arguments: regular matrices with diagonal d, upper entries u
   and lower entries l, among them asymmetric and negative definite ones *)
CovMenu(n) ==
    {[i \in 1..n |-> [j \in 1..n |-> IF i = j THEN d ELSE IF i < j THEN u ELSE l]] :
        d \in {R(3), R(-3)}, u \in {R(0), R(1)}, l \in {R(0), R(1)}}

MultiVariateGaussianNew(kind, cov) ==
    Constructed(kind, <<>>, None, NoVec, <<>>,
                MultiVariateGaussianInit(kind, cov, MuScalar(0), 0))

NextNew ==
    \E n \in 1..MaxDim :
        \/ \E parameterRanges \in [1..n -> RangeMenu], stepSize \in StepMenu,
              sigma \in SigmaMenu(n) : GaussianNew(parameterRanges, stepSize, sigma)
        \/ \E mu \in [1..n -> {0, 3}], sigma \in SigmaLists(n) : FixedGaussianNew(mu, sigma)
        \/ \E mu \in [1..n -> {0, 3}], sigma \in SigmaLists(n) :
              FixedGaussianRangesNew(mu, sigma, [i \in 1..n |-> <<R(-5), R(5)>>])
        \/ \E parameterRanges \in [1..n -> RangeMenu], stepSize \in StepMenu,
              sigma \in SigmaMenu(n) : TransformNew(parameterRanges, stepSize, sigma)
        \/ \E kind \in {"MVG", "FixedMVG"}, cov \in CovMenu(n) :
              MultiVariateGaussianNew(kind, cov)

SpecNew == InitNew /\ [][NextNew]_vars

----------------------------------------------------------------------------
(* The loop of GaussianTransformProposalFunction.generate, one pass at a    *)
(* time: a call is inside the loop while last.ret.tag = "retry"             *)

TransformMenu == {<<"", "">>, <<"shift", "unshift">>}

DomainMenu == {"", "nonneg", "never"}

LoopKid(n, t, indomain) ==
    TransformInit([i \in 1..n |-> <<R(0), R(4)>>], Some(Rat(1, 10)),
                  SomeVec([i \in 1..n |-> Some(R(1))]),
                  [i \in 1..n |-> t[1]], [i \in 1..n |-> t[2]], indomain).self

InitLoop ==
    \E n \in 1..MaxDim, t \in TransformMenu :
        \E indomain \in [1..n -> DomainMenu] :
            /\ kids = <<LoopKid(n, t, indomain)>>
            /\ num_pars = <<n>>
            /\ fi = CombinedInit(<<1>>, <<n>>).fi
            /\ last = NoLast
            /\ adaptRet = <<"none">>
            /\ nscale = <<0>>
            /\ made = NotMade
            /\ disk = EmptyDir /\ fetched = NoFetch /\ run = NoRun

LoopVecs(n) == TestVecs(n) \cup {[i \in 1..n |-> 3 - i]}

InLoop == last.op = "generate" /\ last.ret.tag = "retry"

(* what one pass of the loop leaves *)
Passed(i, p, z, r) ==
    /\ kids' = [kids EXCEPT ![i] = r.self]
    /\ last' = [NoLast EXCEPT !.op = "generate", !.obj = "kid", !.f = i, !.p = p, !.z = z,
                              !.ret = r.ret]
    /\ UNCHANGED <<fi, num_pars, adaptRet, nscale, made, disk, fetched, run>>

(* the call and the first pass of its loop *)
TransformGenerateEnter(i, p, z) ==
    /\ ~InLoop
    /\ Passed(i, p, z, TransformGenerate(kids[i], p, z))

(* _checkdomain rejected the draw: the loop draws again *)
TransformGenerateAgain(z) ==
    /\ InLoop
    /\ Passed(last.f, last.p, z, TransformGenerate(kids[last.f], last.p, z))

NextLoop ==
    \/ \E i \in DOMAIN kids, z \in NoiseIds :
          \E p \in LoopVecs(kids[i].npars) : TransformGenerateEnter(i, p, z)
    \/ \E z \in NoiseIds : TransformGenerateAgain(z)

SpecLoop == InitLoop /\ [][NextLoop]_vars

(* the loop keeps running and the random source gives every draw again and
   again *)
SpecLoopFair == SpecLoop /\ \A z \in NoiseIds : WF_vars(TransformGenerateAgain(z))

----------------------------------------------------------------------------
(* One adaptive proposal on its own, adapted with efficiencies on both      *)
(* sides of the edges of the convergence window and of the 0.1 threshold,   *)
(* and at the two ends 0 and 1 of the efficiency range                      *)

EffsEdge == {0, 2, 6, 8, 10, 12, 20}

InitAdapt == \E kind \in {"Simple", "Adaptive"}, d \in 1..MaxDim : Start(<<kind>>, <<d>>)

NextAdapt ==
    \/ KidGenerateCall(1, Ramp(kids[1].npars), 1)
    \/ KidLogDensityCall(1, Zeros(kids[1].npars), Ramp(kids[1].npars))
    \/ \E eff \in EffsEdge, data \in DataMenu : KidAdaptCall(1, eff, data)

SpecAdapt == InitAdapt /\ [][NextAdapt]_vars

----------------------------------------------------------------------------
(* A process that calls cache and cache_numpy one call after the other,     *)
(* starting with an empty cache directory that is never cleared             *)

(* what the callable passed to fn returns when it is evaluated *)
CacheValues(fn) ==
    IF fn = "cache_numpy" THEN {[type |-> "ndarray", v |-> 1], [type |-> "ndarray", v |-> 2]}
    ELSE {[type |-> "dict", v |-> 1], [type |-> "dict", v |-> 2], [type |-> "ndarray", v |-> 1]}

CacheCall(fn, uniquestr, data) ==
    \E r \in {Cached(fn, disk, uniquestr, data)} :
        /\ disk' = r.disk
        /\ fetched' = [fn |-> fn, uniquestr |-> uniquestr, given |-> data,
                       evaluated |-> r.evaluated, hit |-> r.hit, err |-> r.err,
                       data |-> r.data,
                       first |-> IF fetched.first[fn][uniquestr] = NoValue /\ r.err = ""
                                 THEN [fetched.first EXCEPT ![fn][uniquestr] = r.data]
                                 ELSE fetched.first]
        /\ UNCHANGED <<kids, fi, num_pars, last, adaptRet, nscale, made, run>>

NextCache ==
    \E fn \in {"cache", "cache_numpy"}, uniquestr \in UniqueStrs :
        \E data \in CacheValues(fn) : CacheCall(fn, uniquestr, data)

SpecCache == InitNew /\ [][NextCache]_vars

----------------------------------------------------------------------------
(* One run of a tree processor over a list of input files                   *)

MaxFiles == 2

FileMenu ==
    {[n |-> 0, friend |-> 0, sel |-> <<>>],
     [n |-> 1, friend |-> 1, sel |-> <<1>>],
     [n |-> 2, friend |-> 1, sel |-> <<2>>],
     [n |-> 2, friend |-> 2, sel |-> <<1, 2>>]}

(* n_max: None, or a number up to one more than the files can hold *)
NMaxMenu ==
    {[isNone |-> TRUE, v |-> 0]} \cup {[isNone |-> FALSE, v |-> n] : n \in 0..(2 * MaxFiles + 1)}

ProcessTreeRunCall(class, files, n_max) ==
    /\ run = NoRun
    /\ run' = [class |-> class, files |-> files, n_max |-> n_max, cutok |-> TRUE,
               err |-> ProcessTreeRun(class, files, n_max).err,
               trace |-> ProcessTreeRun(class, files, n_max).trace]
    /\ UNCHANGED <<kids, fi, num_pars, last, adaptRet, nscale, made, disk, fetched>>

ProcessTreeSubsetRunCall(files, n_max, cutok) ==
    /\ run = NoRun
    /\ run' = [class |-> "ProcessTreeSubset", files |-> files, n_max |-> n_max,
               cutok |-> cutok,
               err |-> ProcessTreeSubsetRun(files, n_max, cutok).err,
               trace |-> ProcessTreeSubsetRun(files, n_max, cutok).trace]
    /\ UNCHANGED <<kids, fi, num_pars, last, adaptRet, nscale, made, disk, fetched>>

NextTree ==
    \E files \in UNION {[1..m -> FileMenu] : m \in 0..MaxFiles}, n_max \in NMaxMenu :
        \/ \E class \in {"ProcessTree", "ProcessParallelTrees"} :
              ProcessTreeRunCall(class, files, n_max)
        \/ \E cutok \in BOOLEAN : ProcessTreeSubsetRunCall(files, n_max, cutok)

SpecTree == InitNew /\ [][NextTree]_vars

----------------------------------------------------------------------------
(* Properties *)

(* the first index of block i and the dimension of the composite, from the
   block sizes the composite was built with *)
RECURSIVE Offset(_)
Offset(i) == IF i <= 1 THEN 0 ELSE Offset(i - 1) + num_pars[i - 1]

Total == Offset(Len(num_pars) + 1)

Block(v, i) == SubSeq(v, Offset(i) + 1, Offset(i) + num_pars[i])

RECURSIVE SumLD(_, _)
SumLD(t, n) == IF n = 0 THEN LD0 ELSE LDAdd(SumLD(t, n - 1), t[n])

RECURSIVE Concat(_, _)
Concat(t, n) == IF n = 0 THEN <<>> ELSE Concat(t, n - 1) \o t[n]

IsLiteral(fixedvalues, i) == i \in DOMAIN fixedvalues /\ ~fixedvalues[i].isNone

(* C1: once an adapt call on a SimpleAdaptive or Adaptive proposal has
   returned true, every later adapt call on that instance returns true *)
C1_ConvergedLatch ==
    [][\A i \in DOMAIN kids : adaptRet[i] = "true" => adaptRet'[i] = "true"]_vars

C1_Witness ==
    /\ last.op = "adapt" /\ last.obj = "kid"
    /\ kids[last.f].kind = "Adaptive"
    /\ ~InWindow(last.eff)
    /\ last.ret = RetBool(TRUE)
    /\ adaptRet[last.f] = "true"

(* C2: CombinedProposalFunction.adapt returns true exactly when every child
   that has an adapt operation is converged, children without adapt counting
   as converged *)
C2_AdaptIsAnd ==
    (last.op = "adapt" /\ last.obj = "combined") =>
        /\ last.ret.tag = "bool"
        /\ last.ret.b = (\A i \in DOMAIN kids : HasAdapt(kids[i]) => kids[i].converged)

(* C3: CombinedProposalFunction.adapt(eff, data) invokes the adapt of every
   child that has one exactly once, with the same eff and data *)
C3_AdaptForwards ==
    (last.op = "adapt" /\ last.obj = "combined") =>
        \A i \in DOMAIN kids :
            HasAdapt(kids[i]) =>
                Cardinality({j \in DOMAIN last.kcalls :
                                /\ last.kcalls[j].f = i
                                /\ last.kcalls[j].op = "adapt"
                                /\ last.kcalls[j].eff = last.eff
                                /\ last.kcalls[j].data = last.data}) = 1

(* C4: with vectors of the configured length, every literal position holds
   its literal in the vector generate returns and in the x and p that
   logDensity hands to the wrapped proposal, and the free positions of x and
   p are handed over unchanged *)
C4_FixedPositions ==
    /\ (/\ last.obj = "fixed" /\ last.op = "generate"
        /\ Len(last.p) = Len(last.fixedvalues)
        /\ last.ret.tag = "vec") =>
           \A i \in DOMAIN last.fixedvalues :
               IsLiteral(last.fixedvalues, i) =>
                   i \in DOMAIN last.ret.vec /\ last.ret.vec[i] = last.fixedvalues[i].v
    /\ (/\ last.obj = "fixed" /\ last.op = "logDensity"
        /\ Len(last.x) = Len(last.fixedvalues)
        /\ Len(last.p) = Len(last.fixedvalues)) =>
           /\ last.wcall.op = "logDensity"
           /\ Len(last.wcall.x) = Len(last.x)
           /\ Len(last.wcall.p) = Len(last.p)
           /\ \A i \in DOMAIN last.fixedvalues :
                  IF IsLiteral(last.fixedvalues, i)
                  THEN /\ last.wcall.x[i] = last.fixedvalues[i].v
                       /\ last.wcall.p[i] = last.fixedvalues[i].v
                  ELSE /\ last.wcall.x[i] = last.x[i]
                       /\ last.wcall.p[i] = last.p[i]

C4_Witness ==
    /\ last.obj = "fixed" /\ last.op = "logDensity"
    /\ Len(last.x) = Len(last.fixedvalues)
    /\ Len(last.p) = Len(last.fixedvalues)
    /\ last.ret.tag = "ld"
    /\ \E i, j \in DOMAIN last.fixedvalues :
          /\ IsLiteral(last.fixedvalues, i)
          /\ last.p[i] # last.fixedvalues[i].v
          /\ last.wcall.p[i] = last.fixedvalues[i].v
          /\ ~IsLiteral(last.fixedvalues, j)
          /\ last.wcall.p[j] = last.p[j]

(* C5: the vector ProposalWithSomeParametersFixed.generate passes to the
   wrapped proposal's generate has every literal position already overridden *)
C5_OverrideBeforeGenerate ==
    (last.obj = "fixed" /\ last.op = "generate" /\ last.wcall.op = "generate") =>
        \A i \in DOMAIN last.wcall.p :
            IsLiteral(last.fixedvalues, i) => last.wcall.p[i] = last.fixedvalues[i].v

(* C6: a call of the decorator with a vector (x or p of logDensity, the
   current vector of generate) whose length differs from the length of the
   fixed-values list ends in an error *)
C6_MismatchIsError ==
    (/\ last.obj = "fixed"
     /\ \/ last.op = "logDensity" /\ Len(last.x) # Len(last.fixedvalues)
        \/ last.op = "logDensity" /\ Len(last.p) # Len(last.fixedvalues)
        \/ last.op = "generate" /\ Len(last.p) # Len(last.fixedvalues)) =>
        last.ret.tag = "err"

(* C7: for x and p of the composite's dimension, logDensity(x, p) is the sum
   over the children of the child's logDensity of its own block of x and p,
   and each child is called with exactly that block *)
C7_LogDensityAdditive ==
    (/\ last.op = "logDensity" /\ last.obj = "combined"
     /\ Len(last.x) = Total /\ Len(last.p) = Total) =>
        /\ last.ret = RetLD(SumLD([i \in DOMAIN kids |->
                                     KidLogDensity(kids[i], Block(last.x, i),
                                                   Block(last.p, i)).ret.ld],
                                  Len(kids)))
        /\ Len(last.kcalls) = Len(kids)
        /\ \A i \in DOMAIN kids :
              /\ last.kcalls[i].f = i
              /\ last.kcalls[i].x = Block(last.x, i)
              /\ last.kcalls[i].p = Block(last.p, i)

C7_Witness ==
    /\ last.op = "logDensity" /\ last.obj = "combined"
    /\ Len(last.x) = Total /\ Len(last.p) = Total
    /\ Len(kids) = 2 /\ num_pars[1] # num_pars[2]
    /\ last.ret.tag = "ld" /\ last.ret.ld.q # R(0)
    /\ \A i \in DOMAIN kids : last.kcalls[i].ret.ld.q # R(0)

(* C8: the blocks of the composite are contiguous, non-overlapping and in
   child order, from 0 to the sum of the block sizes, and generate returns the
   concatenation, in block order, of each child's generate on its own block *)
C8_BlocksAndConcatenation ==
    [][/\ \A i \in DOMAIN fi :
             /\ fi[i].f = i
             /\ fi[i].start = (IF i = 1 THEN 0 ELSE fi[i - 1].stop)
             /\ fi[i].stop = fi[i].start + num_pars[i]
       /\ (/\ last'.op = "generate" /\ last'.obj = "combined"
           /\ Len(last'.p) = Total) =>
              last'.ret = RetVec(Concat([i \in DOMAIN kids |->
                                           KidGenerate(kids[i], Block(last'.p, i),
                                                       last'.z).ret.vec],
                                        Len(kids)))]_vars

C8_Witness ==
    /\ last.op = "generate" /\ last.obj = "combined"
    /\ Len(last.p) = Total
    /\ Len(kids) = 2 /\ num_pars[1] # num_pars[2]
    /\ last.ret.tag = "vec" /\ Len(last.ret.vec) = Total
    /\ last.ret.vec = last.kcalls[1].ret.vec \o last.kcalls[2].ret.vec

(* C9: in every variant, generate with a current vector of the proposal's
   dimension N returns a vector of length N, whatever calls came before *)
C9_GenerateKeepsDimension ==
    (/\ last.op = "generate"
     /\ Len(last.p) = (IF last.obj = "combined" THEN Total
                       ELSE IF last.obj = "kid" THEN kids[last.f].npars
                       ELSE Len(last.fixedvalues))) =>
        last.ret.tag = "vec" /\ Len(last.ret.vec) = Len(last.p)

C9_Witness ==
    /\ last.op = "generate" /\ last.obj = "fixed" /\ last.f = 0
    /\ \E i \in DOMAIN kids : kids[i].updatedcov # NoneArr /\ nscale[i] = MaxAdapt
    /\ last.ret.tag = "vec" /\ Len(last.ret.vec) = Total

(* C10: GaussianProposalFunction(parameterRanges, stepSize, sigma) sets
   sigma[i] to stepSize * (max_i - min_i) where no sigma was given for i and
   keeps the given value where one was given *)
C10_DerivedWidth ==
    (made.class = "Gaussian" /\ made.err = "") =>
        /\ Len(made.self.sigma) = Len(made.parameterRanges)
        /\ \A i \in DOMAIN made.parameterRanges :
              made.self.sigma[i] =
                  IF made.sigma.isNone \/ made.sigma.v[i].isNone
                  THEN RMul(made.stepSize.v,
                            RSub(made.parameterRanges[i][2], made.parameterRanges[i][1]))
                  ELSE made.sigma.v[i].v

C10_Witness ==
    /\ made.class = "Gaussian" /\ made.err = ""
    /\ made.parameterRanges = <<<<R(-5), R(5)>>, <<R(-5), R(5)>>>>
    /\ made.stepSize = Some(Rat(4, 10))
    /\ made.sigma = NoVec
    /\ made.self.sigma = <<R(4), R(4)>>

(* the number of parameter ranges N of the constructed proposal: a
   FixedGaussianProposalFunction built without ranges derives one range per
   pair of zip(mu, sigma) *)
NRanges ==
    IF made.class = "FixedGaussian" /\ made.parameterRanges = <<>>
    THEN Min(Len(made.mu), Len(made.sigma.v))
    ELSE Len(made.parameterRanges)

(* C11: constructing a GaussianProposalFunction, FixedGaussianProposalFunction
   or GaussianTransformProposalFunction with an explicit sigma sequence whose
   length differs from the number of parameter ranges N, shorter or longer,
   ends in an error and produces no object *)
C11_SigmaLengthChecked ==
    (/\ made.class \in {"Gaussian", "FixedGaussian", "Transform"}
     /\ ~made.sigma.isNone
     /\ Len(made.sigma.v) # NRanges) =>
        made.err # ""

C11_Witness ==
    /\ made.class = "Gaussian"
    /\ ~made.sigma.isNone
    /\ Len(made.sigma.v) = Len(made.parameterRanges) + 1
    /\ \A i \in DOMAIN made.sigma.v : made.sigma.v[i] = Some(R(3))
    /\ made.err = "McMcSetupError"

(* C12: no constructed GaussianProposalFunction, FixedGaussianProposalFunction
   or GaussianTransformProposalFunction holds a sigma entry that is NaN or
   infinite: such a construction ends in an error *)
C12_SigmaFinite ==
    (/\ made.class \in {"Gaussian", "FixedGaussian", "Transform"}
     /\ made.err = "") =>
        \A i \in DOMAIN made.self.sigma : IsFinite(made.self.sigma[i])

(* C13: every sigma entry of a constructed univariate Gaussian proposal is
   strictly positive: a zero or negative entry ends the construction in an
   error *)
C13_SigmaPositive ==
    (/\ made.class \in {"Gaussian", "FixedGaussian"}
     /\ made.err = "") =>
        \A i \in DOMAIN made.self.sigma :
            IsFinite(made.self.sigma[i]) /\ made.self.sigma[i][1] > 0

(* the draw of the pass that ended the latest generate call, in the space
   where the variables are Gaussian *)
LastDraw ==
    [i \in 1..Len(last.p) |->
        ApplyTransformCopy(kids[last.f], last.p)[i] + Noise(last.z, Len(last.p))[i]]

(* C14: when GaussianTransformProposalFunction.generate returns, the draw it
   accepted satisfied, before the inverse transform, the indomain predicate of
   every dimension that has one, and the vector returned is the inverse
   transform of that one draw in all its dimensions *)
C14_AcceptedDrawInDomain ==
    (/\ last.op = "generate" /\ last.obj = "kid"
     /\ kids[last.f].kind = "Transform"
     /\ last.ret.tag = "vec") =>
        /\ \A i \in DOMAIN LastDraw :
               \/ kids[last.f].indomain[i] = ""
               \/ InDomain(kids[last.f].indomain[i], LastDraw[i])
        /\ last.ret.vec = ApplyInverseTransform(kids[last.f], LastDraw)

C14_Witness ==
    /\ last.op = "generate" /\ last.obj = "kid"
    /\ kids[last.f].kind = "Transform"
    /\ kids[last.f].indomain = <<"nonneg", "nonneg">>
    /\ last.ret.tag = "vec"
    /\ LastDraw = <<0, 3>>
    /\ last.ret.vec = <<-1, 2>>

(* C15: GaussianTransformProposalFunction.generate always terminates: a call
   that is inside the retry loop comes to return a vector or to raise an
   error *)
C15_GenerateTerminates == InLoop ~> (last.ret.tag \in {"vec", "err"})

(* an adapt call has just been made on an adaptive proposal that was not
   converged before it *)
AdaptStep(kind) ==
    /\ last'.op = "adapt" /\ last'.obj = "kid"
    /\ kids[last'.f].kind = kind
    /\ ~kids[last'.f].converged

(* 1 + 2*(eff - 0.4) in exact arithmetic, eff = k/20 *)
StatedScale(k) == RAdd(R(1), RMul(R(2), RSub(Rat(k, 20), Rat(4, 10))))

(* what adapt does when it does not converge: every covariance entry and
   the cumulative scale are multiplied by scale and false is returned *)
RescaledBy(f, scale) ==
    /\ kids'[f].numcov = ArrScale(kids[f].numcov, scale)
    /\ kids'[f].total_scale = RMul(kids[f].total_scale, scale)
    /\ ~kids'[f].converged
    /\ last'.ret = RetBool(FALSE)

Latched(f) ==
    /\ kids'[f].converged
    /\ last'.ret = RetBool(TRUE)

(* C16, as amended: adapt(eff) on a SimpleAdaptive proposal that is not
   converged latches convergence and returns true when abs(eff - 0.4) < 0.1
   as double precision decides it (eff = 0.4 and eff = 0.5 latch, eff = 0.3
   does not); otherwise it multiplies every covariance entry and the
   cumulative scale by 1 + 2*(eff - 0.4), which is 1.4 for eff = 0.6, and
   returns false *)
C16_SimpleAdaptStep ==
    [][AdaptStep("Simple") =>
          /\ IF last'.eff \in {7, 8, 9, 10}
             THEN Latched(last'.f)
             ELSE RescaledBy(last'.f, StatedScale(last'.eff))
          /\ last'.eff = 12 => kids'[last'.f].total_scale =
                                  RMul(kids[last'.f].total_scale, Rat(14, 10))]_vars

C16_Witness ==
    /\ last.op = "adapt" /\ last.obj = "kid"
    /\ kids[last.f].kind = "Simple"
    /\ last.eff = 12
    /\ last.ret = RetBool(FALSE)
    /\ nscale[last.f] = 1
    /\ kids[last.f].total_scale = Rat(14, 10)
    /\ kids[last.f].numcov = ArrScale(Arr2(CovRows(kids[last.f].npars)), Rat(14, 10))

(* C16, as stated: adapt(eff) on a SimpleAdaptive proposal that is not
   converged latches and returns true if |eff - 0.4| < 0.1, and otherwise
   multiplies every covariance entry and the cumulative scale by
   1 + 2*(eff - 0.4), eff = 0.6 giving 1.2, and returns false *)
C16_ScaleAsStated ==
    [][AdaptStep("Simple") =>
          /\ IF Abs(last'.eff - 8) < 2
             THEN Latched(last'.f)
             ELSE RescaledBy(last'.f, StatedScale(last'.eff))
          /\ last'.eff = 12 => kids'[last'.f].total_scale =
                                  RMul(kids[last'.f].total_scale, Rat(12, 10))]_vars

(* C17: for both adaptive controllers, the adapt call that latches
   convergence and every adapt call after it leave the covariance matrix,
   the cumulative scale, the re-estimation record and the batch-draw
   generator as they were, whatever efficiency and samples are passed *)
C17_ConvergedFrame ==
    [][(/\ last'.op = "adapt" /\ last'.obj = "kid"
        /\ HasAdapt(kids[last'.f])
        /\ kids[last'.f].converged \/ kids'[last'.f].converged) =>
           /\ kids'[last'.f].numcov = kids[last'.f].numcov
           /\ kids'[last'.f].total_scale = kids[last'.f].total_scale
           /\ kids'[last'.f].updatedcov = kids[last'.f].updatedcov
           /\ kids'[last'.f].gen = kids[last'.f].gen]_vars

C17_Witness ==
    /\ last.op = "adapt" /\ last.obj = "kid"
    /\ kids[last.f].kind = "Adaptive"
    /\ kids[last.f].converged
    /\ last.eff = 12 /\ last.data = [cols |-> kids[last.f].npars]
    /\ last.ret = RetBool(TRUE)
    /\ kids[last.f].total_scale = Rat(8, 10)
    /\ kids[last.f].numcov = ArrScale(kids[last.f].updatedcov, R(1))
    /\ ~IsNoneArr(kids[last.f].gen.batch)

(* the samples passed to adapt hold one column per parameter *)
ValidData(f) == last'.data.cols = kids[f].npars

(* every covariance entry is multiplied by scale *)
OnlyRescaled(f, scale) == kids'[f].numcov = ArrScale(kids[f].numcov, scale)

(* C18: on an AdaptiveMultiVariateGaussianProposal that is not converged, the
   first adapt call outside the convergence window whose efficiency exceeds
   0.1 replaces the covariance by the empirical covariance of the samples
   times the cumulative scale as that call updated it; the calls outside the
   window with efficiency <= 0.1, and those made once a re-estimation is on
   record, only multiply the covariance by 1 + 2*(eff - 0.4) *)
C18_ReestimateOnce ==
    [][(AdaptStep("Adaptive") /\ ValidData(last'.f) /\ ~InWindow(last'.eff)) =>
          /\ (AboveTenth(last'.eff) /\ nscale[last'.f] = 0) =>
                 kids'[last'.f].numcov =
                     ArrScale(CalcCov(last'.data), kids'[last'.f].total_scale)
          /\ (~AboveTenth(last'.eff) \/ ~IsNoneArr(kids[last'.f].updatedcov)) =>
                 OnlyRescaled(last'.f, StatedScale(last'.eff))]_vars

MultiVariateKinds == {"MVG", "FixedMVG", "Simple", "Adaptive"}

(* C19: for every multivariate proposal, after construction and after every
   adapt call, the cached inverse covariance that logDensity uses is the
   inverse of the covariance matrix the proposal holds *)
C19_InverseFollowsCovariance ==
    \A i \in DOMAIN kids :
        kids[i].kind \in MultiVariateKinds =>
            kids[i].invcov = Invert(kids[i].numcov)

(* C20: for both adaptive controllers, the batch that generate draws from
   was sampled with the covariance the proposal holds: an adapt call that
   rescales or replaces the covariance discards the generator and the draws
   it had buffered in the same call *)
C20_BatchFromCurrentCovariance ==
    \A i \in DOMAIN kids :
        HasAdapt(kids[i]) =>
            \/ IsNoneArr(kids[i].gen.batch)
            \/ kids[i].gen.batch = kids[i].numcov

C20_Witness ==
    /\ last.op = "generate" /\ last.obj = "kid"
    /\ kids[last.f].kind = "Adaptive"
    /\ last.ret.tag = "vec"
    /\ nscale[last.f] = MaxAdapt
    /\ ~IsNoneArr(kids[last.f].updatedcov)
    /\ kids[last.f].numcov # kids[last.f].updatedcov
    /\ kids[last.f].gen.batch = kids[last.f].numcov


----------------------------------------------------------------------------
(* The independence samplers *)

FixedKinds == {"FixedGaussian", "FixedMVG"}

(* -0.5 * sum_i sum_j d[i] * invcov[i][j] * d[j] for d = x - mu *)
QuadraticForm(invcov, x, mu) ==
    LET n == Len(x)
        d == [i \in 1..n |-> R(x[i] - mu[i])]
        cell(c) == LET i == ((c - 1) \div n) + 1
                       j == ((c - 1) % n) + 1
                   IN  RMul(RMul(d[i], invcov.rows[i][j]), d[j])
    IN  RMul(Rat(-1, 2), SumTo([c \in 1..(n * n) |-> cell(c)], n * n))

(* the log density of x under the proposal centred on the configured mu *)
CentredOnMu(self, x) ==
    IF self.kind = "FixedGaussian"
    THEN [q |-> QuadraticForm(
                  Arr2([i \in 1..self.npars |-> [j \in 1..self.npars |->
                          IF i = j THEN RDiv(R(1), RMul(self.sigma[i], self.sigma[i]))
                          ELSE R(0)]]), x, self.mu),
          norm |-> self.sigma]
    ELSE [q |-> QuadraticForm(self.invcov, x, self.mu), norm |-> <<>>]

(* C21: a FixedGaussianProposalFunction or FixedMultiVariateGaussianProposalFunction
   (HesseProposalFunction inherits both methods) returns from generate the
   configured mu plus the draw, and from logDensity the density of x centred
   on the configured mu, whatever vector is passed as current or p *)
C21_IgnoresCurrent ==
    (last.obj = "kid" /\ last.f \in DOMAIN kids /\ kids[last.f].kind \in FixedKinds) =>
        LET self == kids[last.f]
        IN  /\ last.op = "generate" =>
                /\ last.ret.tag = "vec"
                /\ last.ret.vec = [i \in 1..self.npars |->
                                     self.mu[i] + Noise(last.z, self.npars)[i]]
            /\ last.op = "logDensity" =>
                /\ last.ret.tag = "ld"
                /\ last.ret.ld = CentredOnMu(self, last.x)

(* a fixed proposal has drawn around mu for a current point that is not mu *)
C21_Witness ==
    /\ last.obj = "kid" /\ last.op = "generate" /\ last.ret.tag = "vec"
    /\ kids[last.f].kind = "FixedGaussian"
    /\ last.p # kids[last.f].mu
    /\ last.ret.vec # [i \in 1..Len(last.p) |-> last.p[i] + Noise(last.z, Len(last.p))[i]]


----------------------------------------------------------------------------
(* Covariance arguments of the multivariate proposals *)

IsSymmetric(m) == \A i \in DOMAIN m : \A j \in DOMAIN m : m[i][j] = m[j][i]

(* the leading k by k block of m *)
Leading(m, k) == [i \in 1..k |-> [j \in 1..k |-> m[i][j]]]

(* Sylvester's criterion *)
IsPositiveDefinite(m) ==
    /\ IsSymmetric(m)
    /\ \A k \in 1..Len(m) : Det(Leading(m, k))[1] > 0 /\ Det(Leading(m, k))[2] > 0

(* C22: a multivariate proposal (MultiVariateGaussianProposal, or the
   FixedMultiVariateGaussianProposalFunction that HesseProposalFunction
   constructs from the Hesse calculator's matrix) whose covariance argument
   is not symmetric positive-definite is not constructed: the constructor
   raises *)
C22_CovarianceChecked ==
    (made.class \in {"MVG", "FixedMVG"} /\ ~IsPositiveDefinite(made.self.numcov.rows)) =>
        made.err # ""


(* C26: a GaussianTransformProposalFunction constructed with sigma None, or
   with a None entry for parameter i, holds sigma[i] = stepSize * (max_i - min_i)
   of parameterRanges, as the constructor's documentation says *)
C26_TransformSigmaDerived ==
    (made.class = "Transform" /\ made.err = "" /\ ~made.stepSize.isNone) =>
        \A i \in DOMAIN made.parameterRanges :
            (made.sigma.isNone \/ made.sigma.v[i].isNone) =>
                made.self.sigma[i] =
                    RMul(made.stepSize.v,
                         RSub(made.parameterRanges[i][2], made.parameterRanges[i][1]))


----------------------------------------------------------------------------
(* The cumulative scale of SimpleAdaptiveMultiVariateGaussianProposal *)

(* the step is an adapt call on proposal i that neither finds it converged
   nor converges it *)
NonConverging(i) ==
    /\ last'.op = "adapt" /\ last'.obj = "kid" /\ last'.f = i
    /\ ~kids[i].converged
    /\ ~kids'[i].converged

(* 1/5 <= a <= 11/5 *)
InFactorRange(a) == 5 * a[1] >= a[2] /\ 5 * a[1] <= 11 * a[2]

(* C29: a SimpleAdaptiveMultiVariateGaussianProposal always holds the
   covariance given at construction multiplied entrywise by the cumulative
   scale; the cumulative scale is 1 before the first non-converging adapt
   call, is multiplied by 1 + 2*(eff - 0.4) by every non-converging adapt call
   and is changed by nothing else; each such factor lies in [0.2, 2.2], and
   the cumulative scale is strictly positive *)
C29_CumulativeScale ==
    /\ [](\A i \in DOMAIN kids :
            kids[i].kind = "Simple" =>
                /\ kids[i].numcov = ArrScale(Arr2(CovRows(kids[i].npars)), kids[i].total_scale)
                /\ IsFinite(kids[i].total_scale) /\ kids[i].total_scale[1] > 0
                /\ nscale[i] = 0 => kids[i].total_scale = R(1))
    /\ [][\A i \in DOMAIN kids :
            kids[i].kind = "Simple" =>
                IF NonConverging(i)
                THEN /\ InFactorRange(StatedScale(last'.eff))
                     /\ kids'[i].total_scale =
                            RMul(kids[i].total_scale, StatedScale(last'.eff))
                ELSE kids'[i].total_scale = kids[i].total_scale]_vars

(* two non-converging adapt calls, at efficiencies 0 and 1, have multiplied
   the covariance by 0.2 and by 2.2 *)
C29_Witness ==
    /\ kids[1].kind = "Simple"
    /\ nscale[1] = 2
    /\ last.op = "adapt" /\ last.eff = 20
    /\ kids[1].total_scale = Rat(44, 100)
    /\ kids[1].numcov = ArrScale(Arr2(CovRows(kids[1].npars)), Rat(44, 100))


----------------------------------------------------------------------------
(* Vectors the caller holds *)

(* the value, after the step, of the vector that the latest generate call on
   proposal i returned to the caller: the proposal's own buffer where the
   class returns self._result, a separate array otherwise *)
HeldAfter(i) == IF ReturnsBuffer(kids[i]) THEN kids'[i].result ELSE last.ret.vec

(* C28: a candidate that a generate call on a proposal returned keeps its
   value across every later call: generate produces a new vector each time
   and writes to no vector the caller holds *)
C28_ReturnedCandidateKept ==
    [][\A i \in DOMAIN kids :
          (last.op = "generate" /\ last.obj = "kid" /\ last.f = i /\ last.ret.tag = "vec") =>
              HeldAfter(i) = last.ret.vec]_vars


----------------------------------------------------------------------------
(* The cache *)

(* the file format a function writes *)
OwnFormat(fn) == IF fn = "cache_numpy" THEN "npy" ELSE "pickle"

(* C23: over the calls of cache, and over the calls of cache_numpy, with one
   unique string (the file of that string being absent or written by the
   same function): the first call evaluates its callable and returns the
   callable's result; every later call returns what the first call returned
   and does not evaluate its callable *)
C23_EvaluatedOnce ==
    [][LET fn == fetched'.fn
           k == fetched'.uniquestr
       IN  disk[TmpFileName(k)].fmt \in {"", OwnFormat(fn)} =>
               /\ fetched'.err = ""
               /\ IF fetched.first[fn][k] = NoValue
                  THEN fetched'.evaluated /\ fetched'.data = fetched'.given
                  ELSE ~fetched'.evaluated /\ fetched'.data = fetched.first[fn][k]]_vars

(* a later call of cache_numpy whose callable would have returned something
   else got the first call's array without evaluating it *)
C23_Witness ==
    /\ fetched.fn = "cache_numpy" /\ ~fetched.evaluated /\ fetched.err = ""
    /\ fetched.hit = "npy"
    /\ fetched.data = fetched.first["cache_numpy"][fetched.uniquestr]
    /\ fetched.given # fetched.data

(* C30: a call of cache or cache_numpy that finds an entry for its unique
   string and reads it reads an entry that the same function wrote *)
C30_ReadsOwnEntries ==
    fetched.hit # "" => fetched.hit = OwnFormat(fetched.fn)

----------------------------------------------------------------------------
(* The tree processors *)

Times(op) == Cardinality({j \in DOMAIN run.trace : run.trace[j].op = op})

(* C24: every run of ProcessTree, ProcessParallelTrees and ProcessTreeSubset
   calls the algorithm's begin exactly once, as its first call *)
C24_BeginOnce ==
    run.class # "" => run.trace[1].op = "begin" /\ Times("begin") = 1

(* C25: a run of ProcessTree or ProcessTreeSubset that returns normally has
   called the algorithm's end exactly once, as its last call, whatever n_max
   is *)
C25_EndOnce ==
    (run.class \in {"ProcessTree", "ProcessTreeSubset"} /\ run.err = "") =>
        /\ Times("end") = 1
        /\ run.trace[Len(run.trace)].op = "end"

(* the events of the input that the processor is to visit, in input order *)
RECURSIVE Available(_, _, _)
Available(class, files, f) ==
    IF f > Len(files) THEN <<>>
    ELSE (IF class = "ProcessTreeSubset"
          THEN [j \in 1..Len(files[f].sel) |-> AlgCall("event", f, files[f].sel[j])]
          ELSE [j \in 1..files[f].n |-> AlgCall("event", f, j)])
         \o Available(class, files, f + 1)

EventCalls == SelectSeq(run.trace, LAMBDA c : c.op = "event")

(* C27: a run of ProcessTree or ProcessTreeSubset with n_max = n over an
   input of more than n events passes at most n events to the algorithm; a
   run with n_max = None passes every event once, in input order *)
C27_AtMostNMax ==
    (run.class \in {"ProcessTree", "ProcessTreeSubset"} /\ run.err = "") =>
        IF run.n_max.isNone
        THEN EventCalls = Available(run.class, run.files, 1)
        ELSE Len(Available(run.class, run.files, 1)) > run.n_max.v =>
                 Len(EventCalls) <= run.n_max.v

====
